---- MODULE Spec2Model ----
(***************************************************************************)
(* Model of the sfc library: the Calibrator name matcher (calibrator.py)   *)
(* and the StudentFunctionCaller / StudentMethodCaller /                   *)
(* StudentObjectMaker dispatch classes (sfcfactory.py).                    *)
(*                                                                         *)
(* A name is a sequence of character codes: 'a'..'z' are 1..26, 'A'..'Z'   *)
(* are 27..52, '_' is 53 and '0'..'9' are 54..63.  The empty string is the *)
(* empty sequence.                                                         *)
(***************************************************************************)
EXTENDS Integers, Sequences, FiniteSets, TLC

(* one calibrate_args call: its arguments, its locals, its position *)
VARIABLES actual, expected, key, unused_args, idx, pc

(* the module constants STYPE_ARG and SSELF_ARG, the required lists the     *)
(* caller definitions refer to, the caller definitions, the number of       *)
(* instances made of each, the uobj of its instances, and the outcome of    *)
(* the call or make the external caller is looking at                       *)
VARIABLES STYPE_ARG, SSELF_ARG, required, defs, ninst, uobj, last

calvars == <<actual, expected, key, unused_args, idx, pc>>

dispvars == <<STYPE_ARG, SSELF_ARG, required, defs, ninst, uobj, last>>

vars == <<actual, expected, key, unused_args, idx, pc,
          STYPE_ARG, SSELF_ARG, required, defs, ninst, uobj, last>>

-----------------------------------------------------------------------------
(* Bounds of the matcher's inputs: the number of characters in all the      *)
(* names of expected, and in all the names of actual                        *)

MaxEChars == 3
MaxAChars == 2

(* 'a', 'b' and 'A' *)
Alphabet == {1, 2, 27}

(* the names of k characters *)
NamesOf(k) == [1..k -> Alphabet]

(* the lists of non-empty names that have at most n characters in all *)
RECURSIVE ListsWithin(_)
ListsWithin(n) ==
    {<<>>} \cup UNION {{<<w>> \o l : w \in NamesOf(k), l \in ListsWithin(n - k)} :
                          k \in 1..n}

EMPTY == <<>>

-----------------------------------------------------------------------------
(* str.upper on the modelled characters *)

UpperChar(c) == IF c \in 1..26 THEN c + 26 ELSE c

RECURSIVE Upper(_)
Upper(s) == IF s = <<>> THEN <<>> ELSE <<UpperChar(Head(s))>> \o Upper(Tail(s))

(* _get_spellings without the truncation: the full name only *)
_get_spellings_FullOnly(base) == <<base>>

(* Calibrator._get_spellings: base[:i] for i = len(base) down to 1 *)
RECURSIVE _get_spellings(_)
_get_spellings(base) ==
    IF base = <<>> THEN <<>>
    ELSE <<base>> \o _get_spellings(SubSeq(base, 1, Len(base) - 1))

Range(s) == {s[i] : i \in 1..Len(s)}

-----------------------------------------------------------------------------
(* difflib.SequenceMatcher(None, a, b).ratio(), with no junk.  Windows are  *)
(* half-open [alo, ahi) x [blo, bhi) over 1-based positions.               *)

Min(S) == CHOOSE x \in S : \A y \in S : x <= y

Max(S) == CHOOSE x \in S : \A y \in S : x >= y

RECURSIVE RunLen(_, _, _, _, _, _)
RunLen(a, b, i, j, ahi, bhi) ==
    IF i < ahi /\ j < bhi /\ a[i] = b[j]
    THEN 1 + RunLen(a, b, i + 1, j + 1, ahi, bhi)
    ELSE 0

(* find_longest_match: the longest block, of those the one starting         *)
(* earliest in a, of those the one starting earliest in b                   *)
find_longest_match(a, b, alo, ahi, blo, bhi) ==
    LET Size(p) == RunLen(a, b, p[1], p[2], ahi, bhi)
        First(Longest, besti, bestsize) ==
            <<besti, Min({p[2] : p \in {q \in Longest : q[1] = besti}}), bestsize>>
        Earliest(Longest, bestsize) ==
            First(Longest, Min({p[1] : p \in Longest}), bestsize)
        Best(Starts, bestsize) ==
            Earliest({p \in Starts : Size(p) = bestsize}, bestsize)
        Pick(Starts) ==
            IF Starts = {} THEN <<alo, blo, 0>>
            ELSE Best(Starts, Max({Size(p) : p \in Starts}))
    IN  Pick({p \in (alo..(ahi - 1)) \X (blo..(bhi - 1)) : a[p[1]] = b[p[2]]})

(* get_matching_blocks: total size of the matching blocks *)
RECURSIVE Matches(_, _, _, _, _, _)
Matches(a, b, alo, ahi, blo, bhi) ==
    LET Around(i, j, k) ==
            IF k = 0 THEN 0
            ELSE k
                 + (IF alo < i /\ blo < j THEN Matches(a, b, alo, i, blo, j) ELSE 0)
                 + (IF i + k < ahi /\ j + k < bhi
                    THEN Matches(a, b, i + k, ahi, j + k, bhi) ELSE 0)
        Split(m) == Around(m[1], m[2], m[3])
    IN  Split(find_longest_match(a, b, alo, ahi, blo, bhi))

(* ratio() as the fraction <<2*M, T>>; difflib returns 1.0 when T = 0 *)
ratio(a, b) ==
    IF Len(a) + Len(b) = 0 THEN <<1, 1>>
    ELSE <<2 * Matches(a, b, 1, Len(a) + 1, 1, Len(b) + 1), Len(a) + Len(b)>>

ScoreGt(s, t) == s[1] * t[2] > t[1] * s[2]

ScoreEq(s, t) == s[1] * t[2] = t[1] * s[2]

(* Calibrator._get_best_shot *)
_get_best_shot(word, opts) ==
    LET Scores(w) == {ratio(w, Upper(opt)) : opt \in Range(opts)}
        Best(scores) == CHOOSE s \in scores : \A t \in scores : ~ScoreGt(t, s)
    IN  Best(Scores(Upper(word)))

-----------------------------------------------------------------------------
(* Calibrator.calibrate_args *)

(* The keys of a dict built from a list, in insertion order *)
RECURSIVE DictKeys(_)
DictKeys(s) ==
    IF s = <<>> THEN <<>>
    ELSE LET Add(r, name) == IF name \in Range(r) THEN r ELSE Append(r, name)
         IN  Add(DictKeys(SubSeq(s, 1, Len(s) - 1)), s[Len(s)])

(* key = {name: '' for name in expected} *)
InitKey(exp) == [name \in Range(exp) |-> EMPTY]

(* name_to_spellings, as the list of its (name, spellings) items *)
RECURSIVE SpellingItems(_)
SpellingItems(names) ==
    IF names = <<>> THEN <<>>
    ELSE <<<<Head(names), _get_spellings(Head(names))>>>> \o SpellingItems(Tail(names))

name_to_spellings(exp) == SpellingItems(DictKeys(exp))

(* MatchArg storing the upper-cased arg instead of the arg itself *)
MatchArg_StoresUpper(k, arg, exp) ==
    LET Hits(names) == {n \in 1..Len(names) :
                           \E i \in 1..Len(names[n]) :
                               Upper(SubSeq(names[n], 1, i)) = Upper(arg)}
        Give(names, hits) == IF hits = {} THEN k
                             ELSE [k EXCEPT ![names[Min(hits)]] = Upper(arg)]
        Walk(names) == Give(names, Hits(names))
    IN  Walk(DictKeys(exp))

(* the body of the first loop for one arg: the first name, in dict order,   *)
(* one of whose spellings equals arg in upper case, receives arg            *)
MatchArg(k, arg, exp) ==
    LET Hits(items, u_arg) == {n \in 1..Len(items) :
                                  \E w \in Range(items[n][2]) :
                                      Len(w) = Len(arg) /\ Upper(w) = u_arg}
        Give(items, hits) == IF hits = {} THEN k
                             ELSE [k EXCEPT ![items[Min(hits)][1]] = arg]
        Walk(items) == Give(items, Hits(items, Upper(arg)))
    IN  Walk(name_to_spellings(exp))

(* UnusedArgs without the filter: every arg goes through the second loop *)
UnusedArgs_NoFilter(k, act) == act

(* unused_args = [arg for arg in actual if arg not in key.values()] *)
UnusedArgs(k, act) ==
    LET Unused(arg) == \A name \in DOMAIN k : k[name] # arg
    IN  SelectSeq(act, Unused)

(* sims: the best shot of arg against each name's spellings, in dict order *)
RECURSIVE SimItems(_, _)
SimItems(arg, items) ==
    IF items = <<>> THEN <<>>
    ELSE <<<<Head(items)[1], _get_best_shot(arg, Head(items)[2])>>>>
             \o SimItems(arg, Tail(items))

Sims(arg, exp) == SimItems(arg, name_to_spellings(exp))

(* SortedSims as an ascending sort that is then reversed: equal scores end  *)
(* up in reverse order                                                      *)
SortedSims_TiesReversed(sims) ==
    LET N == Len(sims)
        Before(m, n) == \/ ScoreGt(sims[m][2], sims[n][2])
                        \/ ScoreEq(sims[m][2], sims[n][2]) /\ m > n
        Rank(n) == Cardinality({m \in 1..N : Before(m, n)}) + 1
    IN  [r \in 1..N |-> sims[CHOOSE n \in 1..N : Rank(n) = r]]

(* sorted(sims.items(), key=lambda x: x[1], reverse=True): stable, highest  *)
(* score first, equal scores in their original order                        *)
SortedSims(sims) ==
    LET N == Len(sims)
        Before(m, n) == \/ ScoreGt(sims[m][2], sims[n][2])
                        \/ ScoreEq(sims[m][2], sims[n][2]) /\ m < n
        Rank(n) == Cardinality({m \in 1..N : Before(m, n)}) + 1
    IN  [r \in 1..N |-> sims[CHOOSE n \in 1..N : Rank(n) = r]]

(* AssignArg that leaves out the names arg has no similarity to *)
AssignArg_NeedsSimilarity(k, arg, exp) ==
    LET Free(sorted) == {r \in 1..Len(sorted) :
                            k[sorted[r][1]] = EMPTY /\ ScoreGt(sorted[r][2], <<0, 1>>)}
        Give(sorted, free) == IF free = {} THEN k
                              ELSE [k EXCEPT ![sorted[Min(free)][1]] = arg]
        Walk(sorted) == Give(sorted, Free(sorted))
    IN  Walk(SortedSims(Sims(arg, exp)))

(* the body of the second loop for one arg: the first name of the sorted    *)
(* sims whose key entry is still empty receives arg                         *)
AssignArg(k, arg, exp) ==
    LET Free(sorted) == {r \in 1..Len(sorted) : k[sorted[r][1]] = EMPTY}
        Give(sorted, free) == IF free = {} THEN k
                              ELSE [k EXCEPT ![sorted[Min(free)][1]] = arg]
        Walk(sorted) == Give(sorted, Free(sorted))
    IN  Walk(SortedSims(Sims(arg, exp)))

RECURSIVE MatchAll(_, _, _, _)
MatchAll(k, act, i, exp) ==
    IF i > Len(act) THEN k
    ELSE MatchAll(MatchArg(k, act[i], exp), act, i + 1, exp)

RECURSIVE AssignAll(_, _, _, _)
AssignAll(k, unused, i, exp) ==
    IF i > Len(unused) THEN k
    ELSE AssignAll(AssignArg(k, unused[i], exp), unused, i + 1, exp)

(* calibrate_args as a function of its arguments *)
calibrate_args(act, exp) ==
    LET SecondLoop(k1) == AssignAll(k1, UnusedArgs(k1, act), 1, exp)
    IN  SecondLoop(MatchAll(InitKey(exp), act, 1, exp))

-----------------------------------------------------------------------------
(* sfcfactory.py: the reserved names, the caller definitions, call and make *)

(* 'a', 'b' and 'self' *)
NameA == <<1>>
NameB == <<2>>
SELF == <<19, 5, 12, 6>>

(* the names of demos.py: the Rider maker and the Rider class *)
Name_identifier == <<9, 4, 5, 14, 20, 9, 6, 9, 5, 18>>
Name_patience == <<16, 1, 20, 9, 5, 14, 3, 5>>
Name_origin == <<15, 18, 9, 7, 9, 14>>
Name_destination == <<4, 5, 19, 20, 9, 14, 1, 20, 9, 15, 14>>
Name_status == <<19, 20, 1, 20, 21, 19>>
Name_id == <<9, 4>>
Name_location == <<12, 15, 3, 1, 20, 9, 15, 14>>

(* 'x', 'y', 'z', 'w' and 'i', 'p', 'o', 'd' *)
NameX == <<24>>
NameY == <<25>>
NameZ == <<26>>
NameW == <<23>>
NameI == <<9>>
NameP == <<16>>
NameO == <<15>>
NameD == <<4>>

(* '_sfc_stype_arg_' and '_sfc_sself_arg_' *)
StypePrefix == <<53, 19, 6, 3, 53, 19, 20, 25, 16, 5, 53, 1, 18, 7, 53>>
SselfPrefix == <<53, 19, 6, 3, 53, 19, 19, 5, 12, 6, 53, 1, 18, 7, 53>>

(* ''.join(sample([str(n) for n in range(99)], 9)): a string of digits,     *)
(* drawn once per process; one short draw stands for it, '07'               *)
Samples == {<<54, 61>>}

DefIds == {1, 2}
ListIds == {1, 2}
MaxInst == 1

(* what the body of the target does once its arguments are bound *)
BodyOutcomes == {"ok", "TypeError", "ValueError"}

(* what the harness declares and what the student code declares: the       *)
(* required list, the possible names and the parameters of the target       *)
(* (after self, for a method or an __init__); the last one is the Rider     *)
(* maker of demos.py                                                        *)
Scenarios ==
    {<<<<NameA>>, <<>>, <<NameA>>>>,
     <<<<NameA>>, <<>>, <<NameA, NameB>>>>,
     <<<<NameA>>, <<NameB>>, <<NameA>>>>,
     <<<<NameA>>, <<NameB>>, <<NameA, NameB>>>>,
     <<<<NameA, NameB>>, <<>>, <<NameA>>>>,
     <<<<NameA, NameB>>, <<>>, <<NameA, NameB>>>>,
     <<<<Name_identifier, Name_patience, Name_origin, Name_destination>>,
       <<Name_status>>,
       <<Name_id, Name_location, Name_destination, Name_patience>>>>}

(* the keywords the harness calls with *)
KwargPool ==
    {<<>>, <<NameA>>, <<NameB>>, <<NameA, NameB>>, <<NameB, NameA>>,
     <<NameX, NameY, NameZ, NameW>>, <<NameI, NameP, NameO, NameD>>}

(* the declared parameters of the target: a function's own, a method's or   *)
(* an __init__'s after self                                                 *)
Declared(variant, params) ==
    IF variant = "sfc" THEN params ELSE <<SELF>> \o params

(* SFCFactory.sfc / smc / som: the class made for a definition *)
Definition(variant, params, req, possible) ==
    [variant |-> variant, params |-> Declared(variant, params),
     required |-> req, possible |-> possible,
     stype |-> IF variant = "som" THEN <<"demos", "Rider">> ELSE <<>>]

NoCall ==
    [op |-> "none", d |-> 0, kwargs |-> <<>>, required |-> <<>>,
     student_kwargs |-> <<>>, invoked |-> FALSE, bound |-> FALSE,
     body |-> "none", raised |-> "none", returned |-> "none"]

(* the dispatch classes are not used *)
DispIdle ==
    /\ STYPE_ARG = StypePrefix \o (CHOOSE s \in Samples : TRUE)
    /\ SSELF_ARG = SselfPrefix \o (CHOOSE s \in Samples : TRUE)
    /\ required = <<>>
    /\ defs = <<>>
    /\ ninst = <<>>
    /\ uobj = <<>>
    /\ last = NoCall

CalIdle ==
    /\ actual = <<>>
    /\ expected = <<>>
    /\ key = <<>>
    /\ unused_args = <<>>
    /\ idx = 1
    /\ pc = "idle"

(* kwargs and the dicts built from them are lists of (key, value) writes;   *)
(* a value is what it stands for: "arg", "sobj", "stype" or "default"       *)
Keys(kw) == [i \in 1..Len(kw) |-> kw[i][1]]

(* the dict a list of writes leaves: the last write to a key wins *)
DictOf(writes) ==
    [n \in {writes[i][1] : i \in 1..Len(writes)} |->
        writes[Max({i \in 1..Len(writes) : writes[i][1] = n})][2]]

(* d[k] = v on a dict kept as its list of items *)
DictSet(kw, k, v) ==
    IF \E i \in 1..Len(kw) : kw[i][1] = k
    THEN [i \in 1..Len(kw) |-> IF kw[i][1] = k THEN <<k, v>> ELSE kw[i]]
    ELSE Append(kw, <<k, v>>)

(* if SSELF_ARG in kwargs: sobj = kwargs.pop(SSELF_ARG); kwargs['self'] = sobj *)
ReplaceSself(kw, sself) ==
    IF \E i \in 1..Len(kw) : kw[i][1] = sself
    THEN LET i == CHOOSE j \in 1..Len(kw) : kw[j][1] = sself
             IsOther(item) == item[1] # sself
         IN  DictSet(SelectSeq(kw, IsOther), SELF, kw[i][2])
    ELSE kw

(* the target function or method called with **student_kwargs: its          *)
(* parameters have no defaults, so the keywords must be exactly the         *)
(* declared names; then the body runs                                       *)
Target(params, student_kwargs, body) ==
    IF DOMAIN student_kwargs # Range(params)
    THEN [bound |-> FALSE, body |-> "none", raised |-> "TypeError",
          returned |-> "none"]
    ELSE [bound |-> TRUE, body |-> IF body = "ok" THEN "none" ELSE body,
          raised |-> IF body = "ok" THEN "none" ELSE body,
          returned |-> IF body = "ok" THEN "value" ELSE "none"]

(* StudentObjectMaker._get_instantiator: ins takes the type out   *)
(* of kwargs['self'] and calls it with the rest, which binds to the         *)
(* parameters of __init__ after self                                        *)
ins(params, student_kwargs, body) ==
    IF SELF \notin DOMAIN student_kwargs
    THEN [bound |-> FALSE, body |-> "none", raised |-> "KeyError",
          returned |-> "none"]
    ELSE IF student_kwargs[SELF] # "stype" \/ DOMAIN student_kwargs \ {SELF} # Range(Tail(params))
    THEN [bound |-> FALSE, body |-> "none", raised |-> "TypeError",
          returned |-> "none"]
    ELSE [bound |-> TRUE, body |-> IF body = "ok" THEN "none" ELSE body,
          raised |-> IF body = "ok" THEN "none" ELSE body,
          returned |-> IF body = "ok" THEN "instance" ELSE "none"]

(* StudentFunctionCaller.call for the definition defn, whose required list  *)
(* is req, called with kwargs kw                                            *)
call(defn, req, kw, sself, body) ==
    LET TesterNames(names, found) ==
            DictOf([n \in 1..Len(names) |-> <<found[names[n]], names[n]>>])
        Missing(kw1, tester_names) ==
            {i \in 1..Len(kw1) : kw1[i][1] \notin DOMAIN tester_names}
        ReqWrites(kw1, student_names, tester_names, upto) ==
            [i \in 1..upto |-> <<student_names[tester_names[kw1[i][1]]], kw1[i][2]>>]
        PossWrites(student_names) ==
            LET Matched(name) == student_names[name] # EMPTY
                Write(name) == <<student_names[name], "default">>
                Writes(matched) == [i \in 1..Len(matched) |-> Write(matched[i])]
            IN  Writes(SelectSeq(defn.possible, Matched))
        Invoke(student_kwargs) ==
            IF defn.variant = "som"
            THEN ins(defn.params, student_kwargs, body)
            ELSE Target(defn.params, student_kwargs, body)
        Invoked(student_kwargs, r) ==
            [student_kwargs |-> student_kwargs, invoked |-> TRUE,
             bound |-> r.bound, body |-> r.body, raised |-> r.raised,
             returned |-> r.returned]
        Finish(student_kwargs) == Invoked(student_kwargs, Invoke(student_kwargs))
        Assemble(kw1, student_names, tester_names, missing) ==
            IF missing # {}
            THEN [student_kwargs |->
                      DictOf(ReqWrites(kw1, student_names, tester_names, Min(missing) - 1)),
                  invoked |-> FALSE, bound |-> FALSE, body |-> "none",
                  raised |-> "KeyError", returned |-> "none"]
            ELSE Finish(DictOf(ReqWrites(kw1, student_names, tester_names, Len(kw1))
                               \o PossWrites(student_names)))
        Resolve(kw1, student_names, tester_names) ==
            Assemble(kw1, student_names, tester_names, Missing(kw1, tester_names))
        Calibrate(kw1) ==
            Resolve(kw1, calibrate_args(defn.params, req \o defn.possible),
                    TesterNames(DictKeys(req), calibrate_args(Keys(kw1), req)))
    IN  Calibrate(ReplaceSself(kw, sself))

(* StudentMethodCaller.call: kwargs[SSELF_ARG] = sobj; super().call with them *)
smc_call(defn, req, kw, sself, body) ==
    call(defn, req, DictSet(kw, sself, "sobj"), sself, body)

(* make without the except clause *)
make_NoExcept(defn, req, kw, stype_arg, sself, body) ==
    call(defn, req, DictSet(kw, stype_arg, "stype"), sself, body)

(* StudentObjectMaker.make: the type goes in under STYPE_ARG; a TypeError   *)
(* out of call is printed and replaced by self.uobj                         *)
make(defn, req, kw, stype_arg, sself, body) ==
    LET Except(r) == IF r.raised = "TypeError"
                     THEN [r EXCEPT !.raised = "none", !.returned = "uobj"]
                     ELSE r
    IN  Except(call(defn, req, DictSet(kw, stype_arg, "stype"), sself, body))

NoUobj == [cls |-> <<>>, name |-> <<>>]

(* StudentObjectMaker._get_uninstantiated_object: the name is what str(type)*)
(* shows between "class '" and the closing quote, the qualified name        *)
_get_uninstantiated_object(stype) ==
    [cls |-> <<"Uninstantiated">> \o stype, name |-> stype]

(* Uninstantiated.__repr__ *)
Uninstantiated_repr(u) ==
    <<"<Failure to instantiate ">> \o u.name \o <<" due to unexpected parameters>">>

-----------------------------------------------------------------------------
(* The harness: two caller definitions made by SFCFactory, the second of    *)
(* which may have been given the required list of the first; instances are  *)
(* made of them and called                                                  *)

Variants == {"sfc", "smc", "som"}

Init ==
    /\ CalIdle
    /\ STYPE_ARG \in {StypePrefix \o s : s \in Samples}
    /\ SSELF_ARG \in {SselfPrefix \o s : s \in Samples}
    /\ \E v1 \in Variants, s1 \in Scenarios, v2 \in Variants, l2 \in ListIds :
          /\ required = <<s1[1], <<NameA>>>>
          /\ defs = <<Definition(v1, s1[3], 1, s1[2]),
                      Definition(v2, <<NameA>>, l2, <<>>)>>
    /\ ninst = [d \in DefIds |-> 0]
    /\ uobj = [d \in DefIds |-> NoUobj]
    /\ last = NoCall

(* an instance of a StudentFunctionCaller child: no __init__ of its own *)
SfcNew(d) ==
    /\ defs[d].variant = "sfc"
    /\ ninst[d] < MaxInst
    /\ ninst' = [ninst EXCEPT ![d] = @ + 1]
    /\ UNCHANGED <<STYPE_ARG, SSELF_ARG, required, defs, uobj, last>>
    /\ UNCHANGED calvars

(* StudentMethodCaller.__init__ *)
SmcInit(d) ==
    /\ defs[d].variant = "smc"
    /\ ninst[d] < MaxInst
    /\ ninst' = [ninst EXCEPT ![d] = @ + 1]
    /\ required' = [required EXCEPT ![defs[d].required] =
                       IF SELF \in Range(@) THEN @ ELSE Append(@, SELF)]
    /\ UNCHANGED <<STYPE_ARG, SSELF_ARG, defs, uobj, last>>
    /\ UNCHANGED calvars

(* StudentObjectMaker.__init__ *)
SomInit(d) ==
    /\ defs[d].variant = "som"
    /\ ninst[d] < MaxInst
    /\ ninst' = [ninst EXCEPT ![d] = @ + 1]
    /\ uobj' = [uobj EXCEPT ![d] = _get_uninstantiated_object(defs[d].stype)]
    /\ required' = [required EXCEPT ![defs[d].required] = Append(@, STYPE_ARG)]
    /\ UNCHANGED <<STYPE_ARG, SSELF_ARG, defs, last>>
    /\ UNCHANGED calvars

UserKwargs(names) == [i \in 1..Len(names) |-> <<names[i], "arg">>]

Outcome(op, d, names, r) ==
    [op |-> op, d |-> d, kwargs |-> names, required |-> required[defs[d].required],
     student_kwargs |-> r.student_kwargs, invoked |-> r.invoked,
     bound |-> r.bound, body |-> r.body, raised |-> r.raised,
     returned |-> r.returned]

(* SDLC().call(location_str = ...) *)
SfcCall(d) ==
    /\ defs[d].variant = "sfc"
    /\ ninst[d] >= 1
    /\ last = NoCall
    /\ \E names \in KwargPool, body \in BodyOutcomes :
          last' = Outcome("call", d, names,
                          call(defs[d], required[defs[d].required],
                               UserKwargs(names), SSELF_ARG, body))
    /\ UNCHANGED <<STYPE_ARG, SSELF_ARG, required, defs, ninst, uobj>>
    /\ UNCHANGED calvars

(* SLEC().call(sobj, other = ...) *)
SmcCall(d) ==
    /\ defs[d].variant = "smc"
    /\ ninst[d] >= 1
    /\ last = NoCall
    /\ \E names \in KwargPool, body \in BodyOutcomes :
          last' = Outcome("call", d, names,
                          smc_call(defs[d], required[defs[d].required],
                                   UserKwargs(names), SSELF_ARG, body))
    /\ UNCHANGED <<STYPE_ARG, SSELF_ARG, required, defs, ninst, uobj>>
    /\ UNCHANGED calvars

(* SRM().make(i = ..., p = ..., ...) *)
SomMake(d) ==
    /\ defs[d].variant = "som"
    /\ ninst[d] >= 1
    /\ last = NoCall
    /\ \E names \in KwargPool, body \in BodyOutcomes :
          last' = Outcome("make", d, names,
                          make(defs[d], required[defs[d].required],
                               UserKwargs(names), STYPE_ARG, SSELF_ARG, body))
    /\ UNCHANGED <<STYPE_ARG, SSELF_ARG, required, defs, ninst, uobj>>
    /\ UNCHANGED calvars

(* the external caller takes the result or the error and goes on *)
Resume ==
    /\ last # NoCall
    /\ last' = NoCall
    /\ UNCHANGED <<STYPE_ARG, SSELF_ARG, required, defs, ninst, uobj>>
    /\ UNCHANGED calvars

Next ==
    \/ \E d \in DefIds : SfcNew(d)
    \/ \E d \in DefIds : SmcInit(d)
    \/ \E d \in DefIds : SomInit(d)
    \/ \E d \in DefIds : SfcCall(d)
    \/ \E d \in DefIds : SmcCall(d)
    \/ \E d \in DefIds : SomMake(d)
    \/ Resume

Spec == Init /\ [][Next]_vars

-----------------------------------------------------------------------------
(* One calibrate_args call, one loop iteration per step *)

CalInit ==
    /\ DispIdle
    /\ expected \in ListsWithin(MaxEChars)
    /\ actual \in ListsWithin(MaxAChars)
    /\ key = InitKey(expected)
    /\ unused_args = <<>>
    /\ idx = 1
    /\ pc = "match"

(* for arg in actual: ... *)
MatchStep ==
    /\ pc = "match"
    /\ idx <= Len(actual)
    /\ key' = MatchArg(key, actual[idx], expected)
    /\ idx' = idx + 1
    /\ UNCHANGED <<actual, expected, unused_args, pc>>
    /\ UNCHANGED dispvars

(* unused_args = [...] *)
Collect ==
    /\ pc = "match"
    /\ idx > Len(actual)
    /\ unused_args' = UnusedArgs(key, actual)
    /\ idx' = 1
    /\ pc' = "assign"
    /\ UNCHANGED <<actual, expected, key>>
    /\ UNCHANGED dispvars

(* for arg in unused_args: ... *)
AssignStep ==
    /\ pc = "assign"
    /\ idx <= Len(unused_args)
    /\ key' = AssignArg(key, unused_args[idx], expected)
    /\ idx' = idx + 1
    /\ UNCHANGED <<actual, expected, unused_args, pc>>
    /\ UNCHANGED dispvars

(* return key *)
Return ==
    /\ pc = "assign"
    /\ idx > Len(unused_args)
    /\ pc' = "done"
    /\ UNCHANGED <<actual, expected, key, unused_args, idx>>
    /\ UNCHANGED dispvars

CalNext == MatchStep \/ Collect \/ AssignStep \/ Return

CalSpec == CalInit /\ [][CalNext]_vars

(* the stepwise run returns what the function computes *)
StepwiseAgrees == pc = "done" => key = calibrate_args(actual, expected)

-----------------------------------------------------------------------------
(* Properties of calibrate_args *)

Distinct(s) == \A i, j \in 1..Len(s) : i # j => s[i] # s[j]

IsPermutation(a, e) == /\ Len(a) = Len(e)
                       /\ \A x \in Range(a) \cup Range(e) :
                            Cardinality({i \in 1..Len(a) : a[i] = x})
                              = Cardinality({i \in 1..Len(e) : e[i] = x})

(* a is, ignoring case, a non-empty prefix of e (e itself included) *)
IsPrefixCI(a, e) == /\ Len(a) >= 1
                    /\ Len(a) <= Len(e)
                    /\ Upper(a) = Upper(SubSeq(e, 1, Len(a)))

MapsToItself == \A e \in Range(expected) : key[e] = e

(* no expected name is, ignoring case, a prefix of another expected name *)
NoPrefixAmongExpected ==
    \A e1, e2 \in Range(expected) : e1 # e2 => ~IsPrefixCI(e1, e2)

C2_Injective ==
    (pc = "done" /\ Distinct(actual) /\ Len(actual) >= Len(expected))
        => \A e1, e2 \in DOMAIN key :
               (e1 # e2 /\ key[e1] # EMPTY) => key[e1] # key[e2]

C2_Witness ==
    /\ pc = "done"
    /\ Distinct(actual)
    /\ Len(actual) >= Len(expected)
    /\ Cardinality(DOMAIN key) = 2
    /\ \A e \in DOMAIN key : key[e] # EMPTY
    /\ unused_args # <<>>
    /\ Len(unused_args) < Len(actual)

(* position of the first occurrence of a name in the expected list *)
FirstPos(e) == Min({i \in 1..Len(expected) : expected[i] = e})

(* the still-unassigned expected names whose similarity to arg is the       *)
(* highest among the still-unassigned ones                                  *)
Similarity(arg, e) ==
    _get_best_shot(arg, [i \in 1..Len(e) |-> SubSeq(e, 1, Len(e) + 1 - i)])

TopFree(k, arg) ==
    LET free == {e \in DOMAIN k : k[e] = EMPTY}
    IN  {e \in free : \A f \in free :
            ~ScoreGt(Similarity(arg, f), Similarity(arg, e))}

EarliestOf(S) == CHOOSE e \in S : \A f \in S : FirstPos(e) <= FirstPos(f)

(* C9: in a step of the similarity pass, when two or more still-unassigned  *)
(* expected names share the highest similarity to the arg, the arg goes to  *)
(* the one declared earliest and the others stay unassigned.                *)
C9_TieBreakEarliest ==
    [][(pc = "assign" /\ idx <= Len(unused_args)
          /\ Cardinality(TopFree(key, unused_args[idx])) >= 2)
       => LET top == TopFree(key, unused_args[idx])
              first == EarliestOf(top)
          IN  /\ key'[first] = unused_args[idx]
              /\ \A e \in top \ {first} : key'[e] = EMPTY]_vars

(* the key as it was before the i-th iteration of the second loop *)
KeyBeforeAssign(i) ==
    AssignAll(MatchAll(InitKey(expected), actual, 1, expected),
              SubSeq(unused_args, 1, i - 1), 1, expected)

C9_Witness ==
    /\ pc = "done"
    /\ \E i \in 1..Len(unused_args) :
          LET top == TopFree(KeyBeforeAssign(i), unused_args[i])
          IN  /\ Cardinality(top) >= 2
              /\ ScoreGt(Similarity(unused_args[i], EarliestOf(top)), <<0, 1>>)
              /\ key[EarliestOf(top)] = unused_args[i]

(* the precondition of C10 for actual name a and expected name e *)
OnlyPrefixMatch(a, e) ==
    /\ IsPrefixCI(a, e)
    /\ \A f \in Range(expected) : f # e => ~IsPrefixCI(a, f)
    /\ \A f \in Range(expected) : f # a
    /\ \A i \in 1..Len(actual) : actual[i] # a => ~IsPrefixCI(actual[i], e)

(* C10: an actual name a that is, ignoring case, a prefix of exactly one    *)
(* expected name e, equals no expected name, and is the only actual name    *)
(* that is a prefix of e, is the value of e in the returned mapping.        *)
C10_PrefixBinds ==
    pc = "done" =>
        \A a \in Range(actual), e \in Range(expected) :
            OnlyPrefixMatch(a, e) => key[e] = a

(* expected [e, f], actual [a], a a proper prefix of e: e -> a, f -> '' *)
C10_Witness ==
    /\ pc = "done"
    /\ Len(actual) = 1
    /\ Len(expected) = 2
    /\ \E e, f \in Range(expected) :
          /\ e # f
          /\ OnlyPrefixMatch(actual[1], e)
          /\ Len(actual[1]) < Len(e)
          /\ key[e] = actual[1]
          /\ key[f] = EMPTY

-----------------------------------------------------------------------------
(* Properties of call and make *)

(* the keywords handed to ins hold the type under 'self', and the rest are  *)
(* not exactly the parameters of __init__ after self                        *)
BindingFails ==
    /\ last.invoked
    /\ SELF \in DOMAIN last.student_kwargs
    /\ last.student_kwargs[SELF] = "stype"
    /\ DOMAIN last.student_kwargs \ {SELF} # Range(Tail(defs[last.d].params))

(* C3: when the keywords make has assembled do not bind to the parameters   *)
(* of __init__, make raises nothing and returns the uobj made for the type. *)
C3_BindingFailureGivesUobj ==
    (last.op = "make" /\ BindingFails)
        => /\ last.raised = "none"
           /\ last.returned = "uobj"
           /\ uobj[last.d] = _get_uninstantiated_object(defs[last.d].stype)

C3_Witness ==
    /\ last.op = "make"
    /\ BindingFails
    /\ last.returned = "uobj"
    /\ uobj[last.d].name = <<"demos", "Rider">>

(* C4: an error raised by the body of the target, once its arguments are    *)
(* bound, reaches the external caller, in call and in make alike.           *)
C4_BodyErrorsPropagate ==
    (last.op # "none" /\ last.body # "none") => last.raised = last.body

(* C5: the keywords the target is invoked with never have an entry under    *)
(* the empty name.                                                          *)
C5_NoEmptyKeyword ==
    (last.op # "none" /\ last.invoked) => EMPTY \notin DOMAIN last.student_kwargs

(* the number of keywords call works on, the reserved one included *)
Supplied ==
    Len(last.kwargs) + (IF defs[last.d].variant = "sfc" THEN 0 ELSE 1)

(* C6: with more keywords than required names, the keywords that find no    *)
(* place are dropped and the target is invoked all the same.                *)
C6_SurplusDropped ==
    (last.op # "none" /\ Supplied > Cardinality(Range(last.required)))
        => last.invoked

(* C7: no step changes a required list or a caller definition. *)
C7_DefinitionImmutable ==
    [][required' = required /\ defs' = defs]_vars

(* the required names the harness declared *)
DeclaredRequired == Range(last.required) \ {STYPE_ARG}

(* the precondition of C8: make called with as many keywords as required    *)
(* names, no keyword a prefix spelling of a required name or similar to one *)
Implausible ==
    /\ last.op = "make"
    /\ Len(last.kwargs) >= 1
    /\ Len(last.kwargs) = Cardinality(DeclaredRequired)
    /\ \A kw \in Range(last.kwargs), r \in DeclaredRequired :
          /\ ~IsPrefixCI(kw, r)
          /\ ScoreEq(Similarity(kw, r), <<0, 1>>)

TypeNameInRepr(d) ==
    \A part \in Range(defs[d].stype) : part \in Range(Uninstantiated_repr(uobj[d]))

(* C8 as stated: make called with as many keywords as required names, none  *)
(* of them plausible, returns the uobj, whose repr has the type's name.     *)
C8_ImplausibleGivesUobj ==
    Implausible => (last.returned = "uobj" /\ TypeNameInRepr(last.d))

(* C8 amended: such a make still places every keyword and invokes the       *)
(* initializer; it returns the uobj, whose repr has the type's name,        *)
(* exactly when that invocation raises a TypeError.                         *)
C8_ImplausibleStillInvoked ==
    Implausible =>
        /\ last.invoked
        /\ last.returned = "uobj" <=> (BindingFails \/ last.body = "TypeError")
        /\ last.returned = "uobj" => TypeNameInRepr(last.d)
        /\ last.returned = "instance" <=> (last.bound /\ last.body = "none")

(* the Rider maker of demos.py called with x, y, z, w returns a Rider *)
C8_Witness ==
    /\ Implausible
    /\ last.kwargs = <<NameX, NameY, NameZ, NameW>>
    /\ last.returned = "instance"

-----------------------------------------------------------------------------
(* The first loop binds only unassigned names *)

(* C11: in the first loop of calibrate_args, an expected name that has been *)
(* bound to an actual name keeps that binding: no later actual name         *)
(* replaces it.                                                             *)
C11_BoundOnlyIfUnassigned ==
    [][pc = "match" =>
          \A e \in DOMAIN key : key[e] # EMPTY => key'[e] = key[e]]_vars

====
